---- MODULE Spec2Model ----
(***************************************************************************)
(* ConfessServer: the submission admission pipeline of the two variants of *)
(* the server, the row-store one (src/server.js, table of                  *)
(* src/unnamed/part_000) and the file-backed one (src/unnamed/part_001).   *)
(* One behaviour of the model is one run of one variant: the variant is    *)
(* chosen in Init and never changes.                                       *)
(***************************************************************************)
EXTENDS Integers, Sequences, FiniteSets, Bags, TLC

VARIABLES
    variant,      \* "row" (src/server.js) or "file" (src/unnamed/part_001)
    now,          \* the reading of the wall clock, Date.now(), in ms
    rows,         \* row variant: the confessions table, a set of rows
    confessions,  \* file variant: the in-memory array, newest first
    dataFile,     \* file variant: what confessions.json holds
    uploads,      \* the names of the files in public/uploads
    hits,         \* the limiter's per-client count of the current window
    auditLog,     \* ddos-blocked.log, a sequence of entries
    inflight,     \* the bag of requests suspended at an await
    outbound,     \* number of calls made to the external verification service
    accepted,     \* the ids of the posts answered 201 so far, oldest first
    liked,        \* for each id, the number of likes answered 200 so far
    overlapped,   \* history: a post was received while another was suspended
    resp,         \* the last response sent
    nreq          \* number of requests received so far

vars == <<variant, now, rows, confessions, dataFile, uploads, hits, auditLog,
          inflight, outbound, accepted, liked, overlapped, resp, nreq>>

-----------------------------------------------------------------------------
(* Bounds of the model *)

\* Requests received in one behaviour.
MaxReq == 3
\* Largest clock reading; the clock starts at 1 and moves inside 1..MaxClock.
MaxClock == 2
\* Requests that may be suspended at an await at the same time.
MaxInflight == 2
\* Submissions created in one behaviour.
MaxStore == 2

-----------------------------------------------------------------------------
(* Program constants *)

RateLimitMax == 2
FileSizeLimit == 2097152

AllowedTypes == {"image/jpeg", "image/png", "image/gif", "image/webp"}

\* null / undefined
Null == <<>>

\* NaN, the result of Number() on a non-numeric path parameter
NaN == -1

-----------------------------------------------------------------------------
(* Inputs *)

\* Client addresses (req.ip), each with the headers the audit entry quotes.
\* "" stands for a header the request does not carry.
Clients == {"ip1", "ip2"}
UserAgentHeader(c) == IF c = "ip1" THEN "curl" ELSE ""
CountryHeader(c) == IF c = "ip1" THEN "PH" ELSE ""

\* Characters of a message: whitespace, a letter, the tag delimiters.
\* "&lt;" and "&gt;" are the entities the sanitizer writes for stray delimiters.
Letters == {"a"}
Space == " "

\* Raw request bodies: the message field absent, or one of these texts.
Messages == {
    <<>>,
    <<" ">>,
    <<" ", "a", " ">>,
    <<"<", "a", ">">>,
    <<" ", "<", "a", ">", "a">> }
Bodies == {[has |-> FALSE, message |-> Null]}
            \cup {[has |-> TRUE, message |-> m] : m \in Messages}

\* Attached files: none, or a declared type, an original extension and a size.
NoFile == [attached |-> FALSE, mimetype |-> "", ext |-> "", size |-> 0]
Files == {
    NoFile,
    [attached |-> TRUE, mimetype |-> "image/png", ext |-> ".PNG", size |-> 1024],
    [attached |-> TRUE, mimetype |-> "application/pdf", ext |-> ".pdf", size |-> 1024],
    [attached |-> TRUE, mimetype |-> "image/png", ext |-> ".png", size |-> FileSizeLimit + 1] }

\* The :id path parameter: the decimal text of a number, or a non-numeric text.
NonNumeric == -2
IdParams == (0 .. MaxClock) \cup {NonNumeric}

\* The cf-turnstile-response field: absent, or a token.
Tokens == {Null, <<"t">>}

-----------------------------------------------------------------------------
(* Pure functions *)

\* String.prototype.trim
RECURSIVE TrimLeft(_)
TrimLeft(s) ==
    IF s # <<>> /\ Head(s) = Space THEN TrimLeft(Tail(s)) ELSE s

RECURSIVE TrimRight(_)
TrimRight(s) ==
    IF s # <<>> /\ s[Len(s)] = Space THEN TrimRight(SubSeq(s, 1, Len(s) - 1)) ELSE s

\* Mutant of Trim: only the leading whitespace goes.
TrimLeadingOnly(s) == TrimLeft(s)

Trim(s) == TrimRight(TrimLeft(s))

\* sanitizeHtml(text, {allowedTags: [], allowedAttributes: {}}): a "<" followed
\* by a letter opens a tag, which runs to the next ">" (to the end of the text
\* when there is none) and is dropped with its attributes; the text between
\* tags is kept; a delimiter that opens no tag is text and is written as an
\* entity.
EscapeChar(ch) ==
    IF ch = "<" THEN "&lt;" ELSE IF ch = ">" THEN "&gt;" ELSE ch

RECURSIVE SkipTag(_)
SkipTag(s) ==
    IF s = <<>> THEN <<>>
    ELSE IF Head(s) = ">" THEN Tail(s)
    ELSE SkipTag(Tail(s))

RECURSIVE StripTags(_)
StripTags(s) ==
    IF s = <<>> THEN <<>>
    ELSE IF Head(s) = "<" /\ Len(s) > 1 /\ s[2] \in Letters
         THEN StripTags(SkipTag(Tail(s)))
    ELSE <<EscapeChar(Head(s))>> \o StripTags(Tail(s))

sanitizeHtml(s) == StripTags(s)

\* !raw || !raw.trim()
IsEmptyMessage(body) == ~body.has \/ body.message = <<>> \/ Trim(body.message) = <<>>

\* Number(req.params.id)
ToNumber(p) == IF p = NonNumeric THEN NaN ELSE p

\* a === b on numbers
StrictEq(a, b) == a # NaN /\ b # NaN /\ a = b

\* !id || isNaN(id)
IsInvalidId(id) == id = 0 \/ id = NaN

\* path.extname(file.originalname), lower-cased in the row variant only
ToLowerCase(ext) == IF ext = ".PNG" THEN ".png" ELSE ext
StorageName(v, t, file) ==
    <<"img_", t, IF v = "row" THEN ToLowerCase(file.ext) ELSE file.ext>>

\* new Date().toLocaleString(): the local date and time to the second
MsPerSecond == 1000
LocaleString(t) == <<"locale", t \div MsPerSecond>>

\* new Date().toISOString(): the UTC date and time to the millisecond
ISOString(t) == <<"iso", t>>

-----------------------------------------------------------------------------
(* The store *)

NewConfession(t, message, photo) ==
    [id |-> t, message |-> message, time |-> LocaleString(t),
     photo |-> photo, likes |-> 0]

\* Mutant of IncLikes: the new value comes from a stale read of the counter.
IncLikesFromStaleRead(l) == 1

\* Mutant of IncLikes: the sign of the step is wrong.
DecLikes(l) == l - 1

\* likes = likes + 1, and (confession.likes || 0) + 1
IncLikes(l) == l + 1

\* The public URL of a stored upload.
PhotoUrl(v, name) ==
    <<IF v = "row" THEN "req.host" ELSE "http://localhost:3000", "/uploads/", name>>

\* confessions.unshift(confession)
Unshift(list, c) == <<c>> \o list

\* Mutant of FindIndex: the predicate does not compare the id, the first
\* element matches.
FindIndexOfHead(list, id) == IF list = <<>> THEN 0 ELSE 1

\* confessions.find(c => c.id === id): the index of the first match, 0 if none
FindIndex(list, id) ==
    IF \E i \in 1 .. Len(list) : StrictEq(list[i].id, id)
    THEN CHOOSE i \in 1 .. Len(list) :
             /\ StrictEq(list[i].id, id)
             /\ \A j \in 1 .. (i - 1) : ~StrictEq(list[j].id, id)
    ELSE 0

\* confessions.json after a write that completed: JSON.stringify(confessions)
Written(list) == list

\* INSERT INTO confessions: the primary key of part_000 refuses a second row
\* with the same id.
PrimaryKeyFree(table, id) == \A r \in table : r.id # id

\* Mutant of UpdateLikes: the WHERE clause is missing.
UpdateLikesEveryRow(table, id) ==
    {[r EXCEPT !.likes = IncLikes(@)] : r \in table}

\* UPDATE confessions SET likes = likes + 1 WHERE id = $1
UpdateLikes(table, id) ==
    {IF StrictEq(r.id, id) THEN [r EXCEPT !.likes = IncLikes(@)] ELSE r : r \in table}

\* RETURNING likes: the new values of the rows the UPDATE matched
Returning(table, id) == {IncLikes(r.likes) : r \in {x \in table : StrictEq(x.id, id)}}

\* SELECT * FROM confessions ORDER BY id DESC
RECURSIVE OrderByIdDesc(_)
OrderByIdDesc(table) ==
    IF table = {} THEN <<>>
    ELSE LET top == CHOOSE r \in table : \A x \in table : x.id <= r.id
         IN <<top>> \o OrderByIdDesc(table \ {top})

-----------------------------------------------------------------------------
(* The abuse gate: express-rate-limit with windowMs 10 s, max 2 *)

\* Mutant of CountWith: one count for all clients, the key is not the address.
CountOfAllClients(c) == hits["ip1"] + hits["ip2"] + 1

\* The count of the request being admitted, this request included.
CountWith(c) == hits[c] + 1

\* Mutant of OverLimit: the limit is taken one too high.
OverLimitOffByOne(count) == count > RateLimitMax + 1

\* The request is over the limit: the handler option runs instead of the route.
OverLimit(count) == count > RateLimitMax

AuditEntry(v, c) ==
    [time |-> ISOString(now), ip |-> c,
     country |-> IF CountryHeader(c) = "" THEN "Unknown" ELSE CountryHeader(c),
     ua |-> IF UserAgentHeader(c) # "" THEN UserAgentHeader(c)
            ELSE IF v = "row" THEN "undefined" ELSE "Unknown"]

Response(route, status, id, likes, items) ==
    [route |-> route, status |-> status, id |-> id, likes |-> likes,
     items |-> items]

NoResponse == Response("", 0, 0, 0, <<>>)

\* A request suspended at an await: its INSERT, its UPDATE or its outbound
\* call is under way.
Suspended(route, id, conf) == [route |-> route, id |-> id, conf |-> conf]

InFlight(route) == {q \in BagToSet(inflight) : q.route = route}

\* Submissions made so far, stored or on their way to the store.
Created ==
    Len(confessions) + Cardinality(rows)
      + BagCardinality([q \in InFlight("post") |-> inflight[q]])

NoConfession == NewConfession(0, <<>>, Null)

\* The limiter ran its handler: audit entry, then 429.
Block(route, c) ==
    /\ nreq < MaxReq
    /\ nreq' = nreq + 1
    /\ hits' = [hits EXCEPT ![c] = CountWith(c)]
    /\ auditLog' = Append(auditLog, AuditEntry(variant, c))
    /\ resp' = Response(route, 429, 0, 0, <<>>)

\* The limiter let the request through.
Admit(c) ==
    /\ nreq < MaxReq
    /\ nreq' = nreq + 1
    /\ hits' = [hits EXCEPT ![c] = CountWith(c)]
    /\ auditLog' = auditLog

-----------------------------------------------------------------------------
(* The upload middleware: multer's upload.single('photo') *)

\* fileFilter: the declared type is on the allow-list
TypeAllowed(file) == file.mimetype \in AllowedTypes

\* limits.fileSize
TooLarge(file) == file.size > FileSizeLimit

\* The middleware ends the request with an error (500 by the default error
\* handler): the file variant's filter passes an Error for a type off the
\* list, both variants fail on a file over the size limit.
UploadFails(v, file) ==
    /\ file.attached
    /\ \/ v = "file" /\ ~TypeAllowed(file)
       \/ TypeAllowed(file) /\ TooLarge(file)

\* The file is stored and req.file is set.
UploadStored(v, file) ==
    file.attached /\ TypeAllowed(file) /\ ~TooLarge(file)

PhotoOf(v, t, file) ==
    IF UploadStored(v, file) THEN PhotoUrl(v, StorageName(v, t, file)) ELSE Null

UploadsAfter(v, t, file) ==
    IF UploadStored(v, file) THEN uploads \cup {StorageName(v, t, file)} ELSE uploads

\* Mutant of UploadsWhenBlocked: the upload middleware runs before the limiter.
UploadsStoredFirst(v, t, file) == UploadsAfter(v, t, file)

\* The uploads directory after a request the limiter blocked: the limiter is
\* mounted on /confess before the route, so upload.single does not run.
UploadsWhenBlocked(v, t, file) == uploads

-----------------------------------------------------------------------------
(* Initial state: the process has started on an empty store *)

Init ==
    /\ variant \in {"row", "file"}
    /\ now = 1
    /\ rows = {}
    /\ confessions = <<>>
    /\ dataFile = Written(<<>>)
    /\ uploads = {}
    /\ hits = [c \in Clients |-> 0]
    /\ auditLog = <<>>
    /\ inflight = EmptyBag
    /\ outbound = 0
    /\ accepted = <<>>
    /\ liked = [i \in 1 .. MaxClock |-> 0]
    /\ overlapped = FALSE
    /\ resp = NoResponse
    /\ nreq = 0

-----------------------------------------------------------------------------
(* The environment *)

\* The wall clock advances.
Tick ==
    /\ now < MaxClock
    /\ now' = now + 1
    /\ UNCHANGED <<variant, rows, confessions, dataFile, uploads, hits, auditLog,
                   inflight, outbound, accepted, liked, overlapped, resp, nreq>>

\* The wall clock is set back (Date.now() is not monotonic).
ClockBack ==
    /\ now > 1
    /\ now' = now - 1
    /\ UNCHANGED <<variant, rows, confessions, dataFile, uploads, hits, auditLog,
                   inflight, outbound, accepted, liked, overlapped, resp, nreq>>

\* The limiter's window of client c elapses: its count starts again at zero.
WindowElapse(c) ==
    /\ hits[c] > 0
    /\ hits' = [hits EXCEPT ![c] = 0]
    /\ UNCHANGED <<variant, now, rows, confessions, dataFile, uploads, auditLog,
                   inflight, outbound, accepted, liked, overlapped, resp, nreq>>

\* A request for a route that is not behind the limiter.
Ungated ==
    /\ nreq < MaxReq
    /\ nreq' = nreq + 1

-----------------------------------------------------------------------------
(* File-backed variant, src/unnamed/part_001: every handler is synchronous *)

\* How writeFileSync ends: it completes, or it throws. A write that throws
\* leaves the file as it was (truncated files are not followed here).
WriteOutcomes == {"ok", "failed"}

\* Mutant of FileAfter: the write is started and not waited for, the file is
\* still as it was when the handler answers.
FileAfterNotAwaited(write, list) == dataFile

FileAfter(write, list) == IF write = "ok" THEN Written(list) ELSE dataFile

\* POST /confess. writeFileSync ends in one of WriteOutcomes; when it throws,
\* the default error handler answers 500.
FilePost(c, body, file) ==
    /\ variant = "file"
    /\ UNCHANGED <<variant, now, rows, inflight, outbound, liked, overlapped>>
    /\ IF OverLimit(CountWith(c))
       THEN /\ Block("post", c)
            /\ uploads' = UploadsWhenBlocked(variant, now, file)
            /\ UNCHANGED <<confessions, dataFile, accepted>>
       ELSE /\ Admit(c)
            /\ IF UploadFails(variant, file)
               THEN /\ resp' = Response("post", 500, 0, 0, <<>>)
                    /\ UNCHANGED <<confessions, dataFile, uploads, accepted>>
               ELSE /\ uploads' = UploadsAfter(variant, now, file)
                    /\ IF IsEmptyMessage(body)
                       THEN /\ resp' = Response("post", 400, 0, 0, <<>>)
                            /\ UNCHANGED <<confessions, dataFile, accepted>>
                       ELSE LET conf == NewConfession(now, sanitizeHtml(Trim(body.message)),
                                                      PhotoOf(variant, now, file))
                            IN /\ Created < MaxStore
                               /\ confessions' = Unshift(confessions, conf)
                               /\ \E write \in WriteOutcomes :
                                     /\ dataFile' = FileAfter(write, confessions')
                                     /\ IF write = "ok"
                                        THEN /\ resp' = Response("post", 201, conf.id,
                                                                 0, <<conf>>)
                                             /\ accepted' = Append(accepted, conf.id)
                                        ELSE /\ resp' = Response("post", 500, 0, 0, <<>>)
                                             /\ accepted' = accepted

\* POST /confess/:id/like
FileLike(c, param) ==
    /\ variant = "file"
    /\ UNCHANGED <<variant, now, rows, uploads, inflight, outbound, accepted,
                   overlapped>>
    /\ IF OverLimit(CountWith(c))
       THEN /\ Block("like", c)
            /\ UNCHANGED <<confessions, dataFile, liked>>
       ELSE /\ Admit(c)
            /\ LET id == ToNumber(param)
                   i == FindIndex(confessions, id)
               IN IF i = 0
                  THEN /\ resp' = Response("like", 404, id, 0, <<>>)
                       /\ UNCHANGED <<confessions, dataFile, liked>>
                  ELSE /\ confessions' =
                            [confessions EXCEPT ![i].likes = IncLikes(@)]
                       /\ \E write \in WriteOutcomes :
                             /\ dataFile' = FileAfter(write, confessions')
                             /\ IF write = "ok"
                                THEN /\ resp' = Response("like", 200, id,
                                                         confessions'[i].likes, <<>>)
                                     /\ liked' = [liked EXCEPT ![id] = @ + 1]
                                ELSE /\ resp' = Response("like", 500, id, 0, <<>>)
                                     /\ liked' = liked

\* GET /confessions: not behind the limiter
FileList ==
    /\ variant = "file"
    /\ Ungated
    /\ resp' = Response("list", 200, 0, 0, confessions)
    /\ UNCHANGED <<variant, now, rows, confessions, dataFile, uploads, hits,
                   auditLog, inflight, outbound, accepted, liked, overlapped>>

-----------------------------------------------------------------------------
(* Row-store variant, src/server.js: the handlers suspend at pool.query *)

\* POST /confess up to the await: limiter, upload, checks, INSERT sent.
RowPost(c, body, file) ==
    /\ variant = "row"
    /\ UNCHANGED <<variant, now, rows, confessions, dataFile, outbound, accepted,
                   liked>>
    /\ IF OverLimit(CountWith(c))
       THEN /\ Block("post", c)
            /\ uploads' = UploadsWhenBlocked(variant, now, file)
            /\ UNCHANGED <<inflight, overlapped>>
       ELSE /\ Admit(c)
            /\ IF UploadFails(variant, file)
               THEN /\ resp' = Response("post", 500, 0, 0, <<>>)
                    /\ UNCHANGED <<uploads, inflight, overlapped>>
               ELSE /\ uploads' = UploadsAfter(variant, now, file)
                    /\ IF IsEmptyMessage(body)
                       THEN /\ resp' = Response("post", 400, 0, 0, <<>>)
                            /\ UNCHANGED <<inflight, overlapped>>
                       ELSE LET conf == NewConfession(now, sanitizeHtml(Trim(body.message)),
                                                      PhotoOf(variant, now, file))
                            IN /\ Created < MaxStore
                               /\ BagCardinality(inflight) < MaxInflight
                               /\ inflight' = inflight (+)
                                      SetToBag({Suspended("post", conf.id, conf)})
                               /\ overlapped' = (overlapped \/ InFlight("post") # {})
                               /\ resp' = resp

\* The INSERT of a suspended post ends and the handler goes on after the
\* await. The query fails on a taken primary key, or for another reason
\* (fail); the handler then answers 500.
RowPostDone(q, fail) ==
    /\ q \in InFlight("post")
    /\ inflight' = inflight (-) SetToBag({q})
    /\ IF fail \/ ~PrimaryKeyFree(rows, q.conf.id)
       THEN /\ rows' = rows
            /\ resp' = Response("post", 500, 0, 0, <<>>)
            /\ accepted' = accepted
       ELSE /\ rows' = rows \cup {q.conf}
            /\ resp' = Response("post", 201, q.conf.id, 0, <<q.conf>>)
            /\ accepted' = Append(accepted, q.conf.id)
    /\ UNCHANGED <<variant, now, confessions, dataFile, uploads, hits, auditLog,
                   outbound, liked, overlapped, nreq>>

\* POST /confess/:id/like up to the await.
RowLike(c, param) ==
    /\ variant = "row"
    /\ UNCHANGED <<variant, now, rows, confessions, dataFile, uploads, outbound,
                   accepted, liked, overlapped>>
    /\ IF OverLimit(CountWith(c))
       THEN /\ Block("like", c)
            /\ UNCHANGED inflight
       ELSE /\ Admit(c)
            /\ LET id == ToNumber(param)
               IN IF IsInvalidId(id)
                  THEN /\ resp' = Response("like", 400, id, 0, <<>>)
                       /\ UNCHANGED inflight
                  ELSE /\ BagCardinality(inflight) < MaxInflight
                       /\ inflight' = inflight (+)
                              SetToBag({Suspended("like", id, NoConfession)})
                       /\ resp' = resp

\* The UPDATE of a suspended like ends, one statement of the database, and
\* the handler goes on after the await.
RowLikeDone(q, fail) ==
    /\ q \in InFlight("like")
    /\ inflight' = inflight (-) SetToBag({q})
    /\ IF fail
       THEN /\ rows' = rows
            /\ resp' = Response("like", 500, q.id, 0, <<>>)
            /\ liked' = liked
       ELSE LET ret == Returning(rows, q.id)
            IN /\ rows' = UpdateLikes(rows, q.id)
               /\ IF ret = {}
                  THEN /\ resp' = Response("like", 404, q.id, 0, <<>>)
                       /\ liked' = liked
                  ELSE /\ resp' = Response("like", 200, q.id,
                                           CHOOSE l \in ret : TRUE, <<>>)
                       /\ liked' = [liked EXCEPT ![q.id] = @ + 1]
    /\ UNCHANGED <<variant, now, confessions, dataFile, uploads, hits, auditLog,
                   outbound, accepted, overlapped, nreq>>

\* GET /confessions: not behind the limiter. The SELECT reads the table at one
\* instant and the answer carries what it read.
RowList(fail) ==
    /\ variant = "row"
    /\ Ungated
    /\ resp' = IF fail THEN Response("list", 500, 0, 0, <<>>)
               ELSE Response("list", 200, 0, 0, OrderByIdDesc(rows))
    /\ UNCHANGED <<variant, now, rows, confessions, dataFile, uploads, hits,
                   auditLog, inflight, outbound, accepted, liked, overlapped>>

-----------------------------------------------------------------------------
(* The challenge verifier, the same in both variants *)

\* Mutant of MissingToken: the token is not looked at before the call.
MissingTokenNotChecked(token) == FALSE

\* !token
MissingToken(token) == token = Null

\* POST /verify-turnstile up to the await of axios.post
Verify(c, token) ==
    /\ UNCHANGED <<variant, now, rows, confessions, dataFile, uploads, accepted,
                   liked, overlapped>>
    /\ IF OverLimit(CountWith(c))
       THEN /\ Block("verify", c)
            /\ UNCHANGED <<inflight, outbound>>
       ELSE /\ Admit(c)
            /\ IF MissingToken(token)
               THEN /\ resp' = Response("verify", 400, 0, 0, <<>>)
                    /\ UNCHANGED <<inflight, outbound>>
               ELSE /\ BagCardinality(inflight) < MaxInflight
                    /\ outbound' = outbound + 1
                    /\ inflight' = inflight (+)
                           SetToBag({Suspended("verify", 0, NoConfession)})
                    /\ resp' = resp

\* The outbound call ends: the service says success or not, or the call
\* throws (transport error). The code sets no timeout on the call.
VerifyOutcomes == {"success", "failure", "error"}

\* Mutant of VerifyStatus: the catch block answers as a success.
VerifyStatusFailOpen(outcome) == IF outcome = "failure" THEN 403 ELSE 200

VerifyStatus(outcome) ==
    IF outcome = "success" THEN 200 ELSE IF outcome = "failure" THEN 403 ELSE 500

VerifyReply(q, outcome) ==
    /\ q \in InFlight("verify")
    /\ inflight' = inflight (-) SetToBag({q})
    /\ resp' = Response("verify", VerifyStatus(outcome), 0, 0, <<>>)
    /\ UNCHANGED <<variant, now, rows, confessions, dataFile, uploads, hits,
                   auditLog, outbound, accepted, liked, overlapped, nreq>>

-----------------------------------------------------------------------------
(* Specification *)

Next ==
    \/ Tick
    \/ ClockBack
    \/ \E c \in Clients : WindowElapse(c)
    \/ \E c \in Clients, body \in Bodies, file \in Files : FilePost(c, body, file)
    \/ \E c \in Clients, param \in IdParams : FileLike(c, param)
    \/ FileList
    \/ \E c \in Clients, body \in Bodies, file \in Files : RowPost(c, body, file)
    \/ \E q \in InFlight("post"), fail \in BOOLEAN : RowPostDone(q, fail)
    \/ \E c \in Clients, param \in IdParams : RowLike(c, param)
    \/ \E q \in InFlight("like"), fail \in BOOLEAN : RowLikeDone(q, fail)
    \/ \E fail \in BOOLEAN : RowList(fail)
    \/ \E c \in Clients, token \in Tokens : Verify(c, token)
    \/ \E q \in InFlight("verify"), outcome \in VerifyOutcomes : VerifyReply(q, outcome)

Spec == Init /\ [][Next]_vars

\* The same, with what the scheduling of the code guarantees: the database
\* ends every query, and the event loop then resumes the handler suspended at
\* pool.query. Nothing is assumed of the external verification service: the
\* call of axios.post carries no timeout, so its await ends only when the
\* service or the transport ends it.
LiveSpec ==
    /\ Spec
    /\ WF_vars(\E q \in InFlight("post"), fail \in BOOLEAN : RowPostDone(q, fail))
    /\ WF_vars(\E q \in InFlight("like"), fail \in BOOLEAN : RowLikeDone(q, fail))

\* The abuse gate on its own. The server is some way into a run: in its
\* current window each client has made up to RateLimitMax requests for
\* /verify-turnstile with no token, each let through and answered 400 (such a
\* request changes nothing but the client's count); the store and the audit
\* log are still empty and the requests counted by nreq are those received
\* from here on. The requests that follow are for the gated routes that store
\* nothing new: likes and verifications.
GateInit ==
    /\ variant \in {"row", "file"}
    /\ now = 1
    /\ rows = {}
    /\ confessions = <<>>
    /\ dataFile = Written(<<>>)
    /\ uploads = {}
    /\ hits \in [Clients -> 0 .. RateLimitMax]
    /\ auditLog = <<>>
    /\ inflight = EmptyBag
    /\ outbound = 0
    /\ accepted = <<>>
    /\ liked = [i \in 1 .. MaxClock |-> 0]
    /\ overlapped = FALSE
    /\ resp = IF \A c \in Clients : hits[c] = 0 THEN NoResponse
              ELSE Response("verify", 400, 0, 0, <<>>)
    /\ nreq = 0

GateNext ==
    \/ \E c \in Clients : WindowElapse(c)
    \/ \E c \in Clients, param \in IdParams : FileLike(c, param)
    \/ \E c \in Clients, param \in IdParams : RowLike(c, param)
    \/ \E q \in InFlight("like"), fail \in BOOLEAN : RowLikeDone(q, fail)
    \/ \E c \in Clients, token \in Tokens : Verify(c, token)
    \/ \E q \in InFlight("verify"), outcome \in VerifyOutcomes : VerifyReply(q, outcome)

GateSpec == GateInit /\ [][GateNext]_vars

-----------------------------------------------------------------------------
(* What the claims speak of *)

\* The submissions GET /confessions would return now.
Feed == IF variant = "row" THEN OrderByIdDesc(rows) ELSE confessions

Ids(list) == [i \in 1 .. Len(list) |-> list[i].id]

Reverse(seq) == [i \in 1 .. Len(seq) |-> seq[Len(seq) + 1 - i]]

\* The number of responses sent so far; a step answers a request exactly when
\* it raises this number by one.
Responses == nreq - BagCardinality(inflight)
Answers == Responses' = Responses + 1

\* The likes of the submissions with this id, in a list and in a table.
RECURSIVE ListLikes(_, _)
ListLikes(list, id) ==
    IF list = <<>> THEN 0
    ELSE (IF Head(list).id = id THEN Head(list).likes ELSE 0)
           + ListLikes(Tail(list), id)

RECURSIVE TableLikes(_, _)
TableLikes(table, id) ==
    IF table = {} THEN 0
    ELSE LET r == CHOOSE x \in table : TRUE
         IN (IF r.id = id THEN r.likes ELSE 0) + TableLikes(table \ {r}, id)

\* The step receives a request of client c on a route behind the limiter.
GatedRequestOf(c) == hits'[c] = hits[c] + 1

StoreUnchanged ==
    /\ rows' = rows
    /\ confessions' = confessions
    /\ dataFile' = dataFile

-----------------------------------------------------------------------------
(* C1 *)

\* C1: each post answered 201 returns an id strictly greater than the id of
\* every earlier post answered 201, in both variants, also for posts handled
\* in the same clock millisecond or after the clock went back.
C1_AcceptedIdsIncrease ==
    \A i, j \in 1 .. Len(accepted) : i < j => accepted[i] < accepted[j]

-----------------------------------------------------------------------------
(* C2 *)

\* C2: in every reachable state no two submissions of the collection (the
\* table, the in-memory array, confessions.json) have the same id.
C2_NoTwoSubmissionsShareAnId ==
    /\ \A r1, r2 \in rows : r1.id = r2.id => r1 = r2
    /\ \A i, j \in 1 .. Len(confessions) :
           i # j => confessions[i].id # confessions[j].id
    /\ \A i, j \in 1 .. Len(dataFile) :
           i # j => dataFile[i].id # dataFile[j].id

-----------------------------------------------------------------------------
(* C3 *)

\* The step answers a like with 500: the like hit a store failure.
LikeHitsStoreFailure ==
    Answers /\ resp'.route = "like" /\ resp'.status = 500

\* C3: no lost update. In every step that is not a like hitting a store
\* failure, the likes of the submissions with an id go up by exactly the
\* number of likes of that id answered 200 in the step (one or none), whatever
\* other likes of the same id are suspended at that moment; so k likes of one
\* id, answered 200 in any interleaving, raise its likes by exactly k.
C3_NoLostLike ==
    [][~LikeHitsStoreFailure =>
         \A id \in 1 .. MaxClock :
            /\ ListLikes(confessions', id) - ListLikes(confessions, id)
                  = IF variant = "file" THEN liked'[id] - liked[id] ELSE 0
            /\ TableLikes(rows', id) - TableLikes(rows, id)
                  = IF variant = "row" THEN liked'[id] - liked[id] ELSE 0]_vars

\* Two likes of one id have been answered 200 and its likes is 2; in the row
\* variant they may have been suspended together.
C3_Witness ==
    \E id \in 1 .. MaxClock :
        /\ liked[id] = 2
        /\ variant = "row"
        /\ TableLikes(rows, id) = 2

-----------------------------------------------------------------------------
(* C4 *)

\* C4: from an empty store, after N sequential posts each answered 201,
\* GET /confessions returns exactly N submissions, in the reverse of the order
\* in which the posts were accepted. (No post overlapped another, no post
\* left a submission without being answered 201, and the last response is
\* the answer to the GET.)
C4_FeedIsReverseOfAcceptance ==
    ( /\ resp.route = "list" /\ resp.status = 200
      /\ ~overlapped
      /\ InFlight("post") = {}
      /\ Len(Feed) = Len(accepted) )
    => Ids(resp.items) = Reverse(accepted)

-----------------------------------------------------------------------------
(* C5 *)

-----------------------------------------------------------------------------
(* C6 *)

\* A stored submission has this id.
Stored(id) ==
    \/ \E r \in rows : r.id = id
    \/ \E i \in 1 .. Len(confessions) : confessions[i].id = id

\* The step answers a like that got past the limiter and whose id matches no
\* stored submission.
AnswersLikeOfUnknownId ==
    /\ Answers
    /\ resp'.route = "like"
    /\ resp'.status # 429
    /\ ~Stored(resp'.id)

\* C6 as claimed: a like whose id matches no stored submission is answered
\* 404 and leaves the whole store unchanged.
C6_UnknownIdIsNotFound ==
    [][AnswersLikeOfUnknownId => resp'.status = 404 /\ StoreUnchanged]_vars

\* C6 as amended: a like whose id matches no stored submission leaves the
\* whole store unchanged and is answered 404, except that the row-store
\* variant answers 400 when the id is not a non-zero number and may answer 500
\* when its query fails.
C6_UnknownIdLeavesStoreUnchanged ==
    [][AnswersLikeOfUnknownId =>
         /\ StoreUnchanged
         /\ variant = "file" => resp'.status = 404
         /\ variant = "row" /\ resp'.id \in {0, NaN} => resp'.status = 400
         /\ variant = "row" /\ resp'.id \notin {0, NaN} => resp'.status \in {404, 500}]_vars

\* A like of an unknown id has been answered 404 on a store that is not empty.
C6_Witness ==
    /\ resp.route = "like"
    /\ resp.status = 404
    /\ ~Stored(resp.id)
    /\ Len(Feed) > 0

-----------------------------------------------------------------------------
(* C7 *)

\* The step is a POST /confess of client c with this body and this file.
PostOf(c, body, file) ==
    IF variant = "row" THEN RowPost(c, body, file) ELSE FilePost(c, body, file)

\* C7: a POST /confess that attaches a file whose declared type is not
\* image/jpeg, image/png, image/gif or image/webp is rejected and makes no
\* submission, in both variants.
C7_DisallowedTypeMakesNoSubmission ==
    [][\A c \in Clients, body \in Bodies, file \in Files :
          ( /\ PostOf(c, body, file)
            /\ file.attached
            /\ file.mimetype \notin {"image/jpeg", "image/png", "image/gif", "image/webp"} )
          => /\ Created' = Created
             /\ Answers
             /\ resp'.status # 201]_vars

-----------------------------------------------------------------------------
(* C8 *)

\* The text is empty or whitespace only.
AllSpaces(m) == \A i \in 1 .. Len(m) : m[i] = Space

\* C8: every submission in the store has a message that is not empty after
\* trimming, whatever the raw input was.
C8_StoredMessagesAreNotBlank ==
    /\ \A r \in rows : ~AllSpaces(r.message)
    /\ \A i \in 1 .. Len(confessions) : ~AllSpaces(confessions[i].message)
    /\ \A i \in 1 .. Len(dataFile) : ~AllSpaces(dataFile[i].message)

-----------------------------------------------------------------------------
(* C9 *)

\* The text between the first and the last character that is not whitespace.
Core(m) ==
    IF AllSpaces(m) THEN <<>>
    ELSE LET solid == {i \in 1 .. Len(m) : m[i] # Space}
             first == CHOOSE i \in solid : \A j \in solid : i <= j
             last == CHOOSE i \in solid : \A j \in solid : j <= i
         IN SubSeq(m, first, last)

\* The request gets as far as the handler's check of the message.
ReachesHandler(c, file) ==
    ~OverLimit(CountWith(c)) /\ ~UploadFails(variant, file)

\* What every step has in common in which a post of client c reaches the
\* handler: it is answered as a post or it is suspended.
PostStepOf(c) ==
    GatedRequestOf(c) /\ (resp'.route = "post" \/ inflight' # inflight)

\* The submissions a step makes: new in the array, or sent to the table.
MadeInStep ==
    IF variant = "file"
    THEN IF Len(confessions') > Len(confessions) THEN {confessions'[1]} ELSE {}
    ELSE {q.conf : q \in {x \in InFlight("post")' :
                              CopiesIn(x, inflight') > CopiesIn(x, inflight)}}

-----------------------------------------------------------------------------
(* C10 *)

\* C10: in the file-backed variant the in-memory collection equals the last
\* durably written one, also after a writeFileSync that failed during a post
\* or a like (the failed post is not in the list GET /confessions serves, the
\* failed like's increment is not visible).
C10_MemoryEqualsLastWrite ==
    variant = "file" => confessions = dataFile

-----------------------------------------------------------------------------
(* C11 *)

\* The step answers a post with 201 or a like with 200.
AnswersSuccess(route) ==
    /\ Answers
    /\ resp'.route = route
    /\ resp'.status = IF route = "post" THEN 201 ELSE 200

\* C11: a success response of a post (201) or of a like (200) is sent only
\* when the write of that mutation has completed: in the state the response
\* is sent in, the table holds the inserted row or the updated likes, and
\* confessions.json holds the submission at its head or the likes returned.
C11_SuccessFollowsTheWrite ==
    [][/\ AnswersSuccess("post") =>
            IF variant = "row"
            THEN resp'.items[1] \in rows'
            ELSE Len(dataFile') > 0 /\ dataFile'[1] = resp'.items[1]
       /\ AnswersSuccess("like") =>
            IF variant = "row"
            THEN \E r \in rows' : r.id = resp'.id /\ r.likes = resp'.likes
            ELSE \E i \in 1 .. Len(dataFile') :
                    dataFile'[i].id = resp'.id /\ dataFile'[i].likes = resp'.likes]_vars

\* A like of the file-backed variant has been answered 200 and
\* confessions.json holds the likes it returned.
C11_Witness ==
    /\ variant = "file"
    /\ resp.route = "like"
    /\ resp.status = 200
    /\ resp.likes = 1
    /\ ListLikes(dataFile, resp.id) = 1

-----------------------------------------------------------------------------
(* C12 *)

\* C12: no two accepted uploads receive the same storage name: a step in
\* which the upload middleware stores a file writes it under a name that no
\* file in the uploads directory has yet, also when two files with the same
\* extension are named in the same clock millisecond.
C12_NoStoredUploadIsOverwritten ==
    [][\A c \in Clients :
          PostStepOf(c) =>
             \A body \in Bodies, file \in Files :
                ( /\ ReachesHandler(c, file)
                  /\ PostOf(c, body, file)
                  /\ UploadStored(variant, file) )
                => StorageName(variant, now, file) \notin uploads]_vars

-----------------------------------------------------------------------------
(* C13 *)

\* C13: every POST /verify-turnstile that carries a token is answered in the
\* end, also when the external service never answers (the outbound call is
\* then ended by a timeout and the request answered 500): whenever such
\* requests are suspended at the outbound call, a later state has none
\* suspended.
C13_VerifyIsAnswered ==
    (InFlight("verify") # {}) ~> (InFlight("verify") = {})

-----------------------------------------------------------------------------
(* C14 *)

\* C14: the verifier fails closed. When the outbound call ends, a transport
\* failure is answered 500, a response whose success field is false 403, and
\* only a response whose success field is true 200; and a verify request is
\* answered 200 only in a step in which an outbound call made earlier ends
\* with the service saying success.
C14_VerifierFailsClosed ==
    [][/\ \A q \in InFlight("verify") :
            /\ VerifyReply(q, "error") => Answers /\ resp'.status = 500
            /\ VerifyReply(q, "failure") => Answers /\ resp'.status = 403
            /\ VerifyReply(q, "success") => Answers /\ resp'.status = 200
       /\ (Answers /\ resp'.route = "verify" /\ resp'.status = 200) =>
            /\ outbound > 0
            /\ \E q \in InFlight("verify") : VerifyReply(q, "success")]_vars

\* An outbound call failed in transport and the request was answered 500.
C14_Witness ==
    /\ resp.route = "verify"
    /\ resp.status = 500
    /\ outbound > 0

-----------------------------------------------------------------------------
(* C15 *)

\* C15: a POST /verify-turnstile with no token makes no outbound call and is
\* not suspended: it is answered in the step that receives it, with 400 when
\* the limiter let it through.
C15_MissingTokenMakesNoCall ==
    [][\A c \in Clients :
          GatedRequestOf(c) /\ Verify(c, Null) =>
             /\ outbound' = outbound
             /\ inflight' = inflight
             /\ Answers
             /\ resp'.route = "verify"
             /\ ~OverLimit(CountWith(c)) => resp'.status = 400]_vars

\* A verify request with no token has been answered 400, and no outbound call
\* was ever made.
C15_Witness ==
    /\ resp.route = "verify"
    /\ resp.status = 400
    /\ outbound = 0

-----------------------------------------------------------------------------
(* C16 *)

\* The submissions a list gained at its head in the step.
Gained(before, after) == Len(after) - Len(before)

\* C16: likes is 0 in every submission as it is created (sent to the table,
\* put into the array), is a natural number in every submission of the table,
\* the array and confessions.json, and no step lowers the likes of a
\* submission: of a row of the table (found by its primary key), of an element
\* of the array or of confessions.json (found by its place, counted from the
\* oldest).
C16_LikesStartAtZeroAndNeverDecrease ==
    [][/\ \A conf \in MadeInStep : conf.likes = 0
       /\ \A r \in rows' :
             /\ r.likes \in Nat
             /\ (\A x \in rows : x.id # r.id) => r.likes = 0
       /\ \A x \in rows : \E r \in rows' : r.id = x.id /\ r.likes >= x.likes
       /\ \A i \in 1 .. Len(confessions') : confessions'[i].likes \in Nat
       /\ \A i \in 1 .. Len(dataFile') : dataFile'[i].likes \in Nat
       /\ Gained(confessions, confessions') >= 0
       /\ \A i \in 1 .. Gained(confessions, confessions') : confessions'[i].likes = 0
       /\ \A i \in 1 .. Len(confessions) :
             confessions'[i + Gained(confessions, confessions')].likes
                >= confessions[i].likes
       /\ Gained(dataFile, dataFile') >= 0
       /\ \A i \in 1 .. Len(dataFile) :
             dataFile'[i + Gained(dataFile, dataFile')].likes >= dataFile[i].likes]_vars

\* A submission has been liked twice: its likes went from 0 to 1 to 2.
C16_Witness ==
    \/ \E r \in rows : r.likes = 2
    \/ \E i \in 1 .. Len(confessions) : confessions[i].likes = 2 /\ dataFile = confessions

-----------------------------------------------------------------------------
(* C17 *)

\* A submission without its likes.
Fixed(s) == [id |-> s.id, message |-> s.message, time |-> s.time, photo |-> s.photo]

\* C17: a step that answers a like with 200 raises by 1 the likes of exactly
\* one submission, one whose id is the requested id, and changes nothing else
\* of the table or of the array: no other likes, no other field, not the
\* number of submissions nor their order. And no step of any kind changes the
\* id, message, time or photo of a submission already in the table, the array
\* or confessions.json.
C17_LikeChangesOneCounterOnly ==
    [][/\ AnswersSuccess("like") =>
            IF variant = "row"
            THEN \E r \in rows :
                    /\ r.id = resp'.id
                    /\ rows' = (rows \ {r}) \cup {[r EXCEPT !.likes = r.likes + 1]}
                    /\ Cardinality(rows') = Cardinality(rows)
            ELSE \E i \in 1 .. Len(confessions) :
                    /\ confessions[i].id = resp'.id
                    /\ confessions' = [confessions EXCEPT ![i].likes = confessions[i].likes + 1]
       /\ \A x \in rows : \E r \in rows' : Fixed(r) = Fixed(x)
       /\ \A i \in 1 .. Len(confessions) :
             Fixed(confessions'[i + Gained(confessions, confessions')]) = Fixed(confessions[i])
       /\ \A i \in 1 .. Len(dataFile) :
             Fixed(dataFile'[i + Gained(dataFile, dataFile')]) = Fixed(dataFile[i])]_vars

\* With two submissions stored, a like of the older one has been answered 200:
\* the older has 1 like and the newer none.
C17_Witness ==
    /\ resp.route = "like"
    /\ resp.status = 200
    /\ Len(Feed) = 2
    /\ Feed[1].id # Feed[2].id
    /\ Feed[2].id = resp.id
    /\ Feed[2].likes = 1
    /\ Feed[1].likes = 0

-----------------------------------------------------------------------------
(* C18 *)

\* C18: a request the limiter answers 429 reaches no later stage: the step
\* adds no submission, changes no likes, stores no uploaded file, makes no
\* outbound call and suspends nothing; it raises the count of one client by 1
\* and appends one entry to the audit log, and changes nothing else.
C18_BlockedRequestTouchesOnlyTheGate ==
    [][(Answers /\ resp'.status = 429) =>
          /\ UNCHANGED <<rows, confessions, dataFile, uploads, outbound, inflight,
                         accepted, liked>>
          /\ \E c \in Clients : hits' = [hits EXCEPT ![c] = hits[c] + 1]
          /\ Len(auditLog') = Len(auditLog) + 1]_vars

\* A post has been answered 429 after an earlier post with a file was stored.
C18_Witness ==
    /\ resp.route = "post"
    /\ resp.status = 429
    /\ Len(Feed) = 1
    /\ Cardinality(uploads) = 1

-----------------------------------------------------------------------------
(* C20 *)

\* The photo field of a stored submission refers to the upload of this name.
Referenced(name) ==
    \/ \E r \in rows : r.photo = PhotoUrl(variant, name)
    \/ \E i \in 1 .. Len(confessions) : confessions[i].photo = PhotoUrl(variant, name)

\* C20: once the posts received have completed (none is suspended), every
\* file in the uploads directory is referenced by the photo of a stored
\* submission: a post rejected for its message or failed at the store leaves
\* no file behind.
C20_EveryUploadIsReferenced ==
    InFlight("post") = {} => \A name \in uploads : Referenced(name)

-----------------------------------------------------------------------------
(* C19 *)

\* The step receives a request of client c for a like or a verification.
LikeOrVerifyOf(c) ==
    \/ \E token \in Tokens : Verify(c, token)
    \/ \E param \in IdParams : RowLike(c, param)
    \/ \E param \in IdParams : FileLike(c, param)

\* C19: the limiter counts in a fixed window per client address. When the
\* window of a client elapses its count is zero again; a request of a client
\* is answered 429 exactly when that client has already made RateLimitMax
\* requests in its current window, whatever the counts of the other clients
\* are, and it changes the count of no other client. So a client blocked in
\* one window is let through on its first request after the window elapsed.
C19_FixedWindowPerClient ==
    [][\A c \in Clients :
          /\ WindowElapse(c) => hits'[c] = 0
          /\ LikeOrVerifyOf(c) =>
                /\ hits'[c] = hits[c] + 1
                /\ \A d \in Clients \ {c} : hits'[d] = hits[d]
                /\ (Answers /\ resp'.status = 429) <=> hits[c] >= RateLimitMax]_vars

\* A client was blocked (the audit log holds its entry), its window elapsed,
\* and its next request, the first of the new window, was let through and
\* answered by the handler.
C19_Witness ==
    \E c \in Clients :
        /\ Len(auditLog) = 1
        /\ auditLog[1].ip = c
        /\ hits[c] = 1
        /\ resp.route = "verify"
        /\ resp.status = 400
        /\ \A d \in Clients \ {c} : hits[d] = RateLimitMax

====
